---- MODULE Spec2Model ----
(***************************************************************************)
(* A model of dso-file-name-anonymizer (src/main.py): the name derivation  *)
(* anonymize_file_name, the directory walk process_directory and the entry *)
(* point main, over a small POSIX file system.                             *)
(*                                                                         *)
(* A Python str is modelled as a sequence of characters, each character a  *)
(* one-element label ("a", ".", "/", ...).  A file-system path is the      *)
(* sequence of the names of its components below the root.                 *)
(***************************************************************************)
EXTENDS Naturals, Integers, Sequences, FiniteSets, TLC

VARIABLES
    entry,       \* which function the run calls: "main", "process_directory" or "anonymize_file_name"
    pc,          \* position of the run in the code
    algorithm,   \* args.algorithm / the algorithm parameter
    prefix,      \* args.prefix / the prefix parameter
    dry_run,     \* args.dry_run / the dry_run parameter
    log_file,    \* args.log_file: "none", "ok" (can be opened) or "bad" (cannot be opened)
    file_name,   \* the file_name parameter of a direct call of anonymize_file_name
    result,      \* the value that direct call returned
    fs,          \* the file system: path -> node
    fs0,         \* the file system when the run started
    readable,    \* whether os.listdir may read the directory
    listing,     \* the list os.listdir returned
    idx,         \* index of the loop over the listing (1-based)
    outcome,     \* the branch each iteration of the loop took
    log,         \* the records handed to logging, oldest first
    ret          \* what main did: "none", "0", "1" or "raised"

vars == <<entry, pc, algorithm, prefix, dry_run, log_file, file_name, result,
          fs, fs0, readable, listing, idx, outcome, log, ret>>

-----------------------------------------------------------------------------
(* Bounds of the model.                                                    *)

MaxNameLen == 3      \* longest file_name of a direct call of anonymize_file_name
MaxPrefixLen == 2    \* longest prefix of such a call
MaxEntries == 2      \* most children of the directory

-----------------------------------------------------------------------------
(* Strings.                                                                *)

sep == "/"
extsep == "."

\* A lone surrogate, which os.listdir yields for an undecodable byte (surrogateescape).
Surrogate == "U+DC80"
\* A two-byte character.
EAcute == "U+00E9"

HexDigits == <<"0", "1", "2", "3", "4", "5", "6", "7", "8", "9", "a", "b", "c", "d", "e", "f">>

Ascii == [c \in {"a", "b", "s", "x", "_", ".", "/"} |->
            CASE c = "a" -> 97 [] c = "b" -> 98 [] c = "s" -> 115 [] c = "x" -> 120
              [] c = "_" -> 95 [] c = "." -> 46 [] c = "/" -> 47]

ord(c) ==
    IF c \in DOMAIN Ascii THEN Ascii[c]
    ELSE IF c = EAcute THEN 233
    ELSE IF c = Surrogate THEN 56448
    ELSE IF \E k \in 1..10 : HexDigits[k] = c THEN 47 + (CHOOSE k \in 1..10 : HexDigits[k] = c)
    ELSE 86 + (CHOOSE k \in 11..16 : HexDigits[k] = c)

RECURSIVE SeqsUpTo(_, _)
SeqsUpTo(chars, n) ==
    IF n = 0 THEN {<<>>}
    ELSE LET shorter == SeqsUpTo(chars, n - 1)
         IN shorter \cup {Append(s, c) : s \in shorter, c \in chars}

\* str.rfind for a single character: the last index of c in s, 0 when absent.
rfind(s, c) ==
    IF \E k \in 1..Len(s) : s[k] = c
    THEN CHOOSE k \in 1..Len(s) : s[k] = c /\ \A j \in (k + 1)..Len(s) : s[j] # c
    ELSE 0

startswith(s, p) == Len(p) <= Len(s) /\ SubSeq(s, 1, Len(p)) = p

endswith(s, p) == Len(p) <= Len(s) /\ SubSeq(s, Len(s) - Len(p) + 1, Len(s)) = p

-----------------------------------------------------------------------------
(* str.encode('utf-8') and hashlib.                                        *)

\* The UTF-8 bytes of one code point; a surrogate cannot be encoded.
Utf8Encodable(c) == ~(ord(c) >= 55296 /\ ord(c) <= 57343)

Utf8Char(c) ==
    LET cp == ord(c)
    IN IF cp < 128 THEN <<cp>>
       ELSE IF cp < 2048 THEN <<192 + (cp \div 64), 128 + (cp % 64)>>
       ELSE <<224 + (cp \div 4096), 128 + ((cp \div 64) % 64), 128 + (cp % 64)>>

RECURSIVE EncodeRange(_, _, _)
\* The bytes of the characters lo..hi of s, in order.
EncodeRange(s, lo, hi) ==
    IF lo > hi THEN <<>>
    ELSE IF lo = hi THEN Utf8Char(s[lo])
    ELSE LET mid == (lo + hi) \div 2
         IN EncodeRange(s, lo, mid) \o EncodeRange(s, mid + 1, hi)

encode(s) == EncodeRange(s, 1, Len(s))

encodable(s) == \A k \in 1..Len(s) : Utf8Encodable(s[k])

\* The values argparse accepts for --algorithm.
choices == {"md5", "sha1", "sha256", "sha512"}

\* The algorithms hashlib.new knows, as far as the model carries them.
algorithms_available == {"md5", "sha1", "sha256", "sha512"}

\* hashlib's digest_size of each algorithm, in bytes.
digest_size(a) ==
    CASE a = "md5" -> 16 [] a = "sha1" -> 20 [] a = "sha256" -> 32 [] a = "sha512" -> 64

\* The digest itself is hashlib's; it is modelled by a checksum of the
\* algorithm's width that reads every byte of the message with its position
\* and depends on the algorithm.
RECURSIVE Absorb(_, _, _)
Absorb(bytes, lo, hi) ==
    IF lo > hi THEN 0
    ELSE IF lo = hi THEN (bytes[lo] + 7) * (lo * lo + 1)
    ELSE LET mid == (lo + hi) \div 2
         IN (Absorb(bytes, lo, mid) + Absorb(bytes, mid + 1, hi)) % 65521

digest(a, bytes) ==
    LET h == (Absorb(bytes, 1, Len(bytes)) + digest_size(a)) % 65521
    IN [k \in 1..digest_size(a) |-> (h + k * (1 + (h % 251))) % 256]

\* bytes.hex(): two digits for each byte, most significant first.
Hex(bytes, digits) ==
    [j \in 1..(2 * Len(bytes)) |->
        LET b == bytes[(j + 1) \div 2]
        IN IF j % 2 = 1 THEN digits[(b \div 16) + 1] ELSE digits[(b % 16) + 1]]

hexdigest(a, bytes) == Hex(digest(a, bytes), HexDigits)

-----------------------------------------------------------------------------
(* os.path.splitext and os.path.join (posixpath).                          *)

\* genericpath._splitext's loop over the leading dots of the last component.
RECURSIVE SplitAfterLeadingDots(_, _, _)
SplitAfterLeadingDots(p, filenameIndex, dotIndex) ==
    IF filenameIndex < dotIndex
    THEN IF p[filenameIndex] # extsep
         THEN <<SubSeq(p, 1, dotIndex - 1), SubSeq(p, dotIndex, Len(p))>>
         ELSE SplitAfterLeadingDots(p, filenameIndex + 1, dotIndex)
    ELSE <<p, <<>>>>

\* The split at the last dot whatever precedes it.
SplitextAtLastDot(p) ==
    LET sepIndex == rfind(p, sep)
        dotIndex == rfind(p, extsep)
    IN IF dotIndex > sepIndex
       THEN <<SubSeq(p, 1, dotIndex - 1), SubSeq(p, dotIndex, Len(p))>>
       ELSE <<p, <<>>>>

splitext(p) ==
    LET sepIndex == rfind(p, sep)
        dotIndex == rfind(p, extsep)
    IN IF dotIndex > sepIndex
       THEN SplitAfterLeadingDots(p, sepIndex + 1, dotIndex)
       ELSE <<p, <<>>>>

join(a, b) ==
    IF b # <<>> /\ b[1] = sep THEN b
    ELSE IF a = <<>> \/ a[Len(a)] = sep THEN a \o b
    ELSE a \o <<sep>> \o b

-----------------------------------------------------------------------------
(* anonymize_file_name.                                                    *)

None == [ok |-> FALSE, name |-> <<>>]

Some(s) == [ok |-> TRUE, name |-> s]

\* The exception the try block raises, "" when it raises none.
AnonymizeError(name, a) ==
    IF a \notin algorithms_available THEN "ValueError"
    ELSE IF ~encodable(name) THEN "UnicodeEncodeError"
    ELSE ""

AnonymizeHashingBase(name, a, p) ==
    IF AnonymizeError(name, a) # "" THEN None
    ELSE Some(p \o hexdigest(a, encode(splitext(name)[1])) \o splitext(name)[2])

AnonymizeAtLastDot(name, a, p) ==
    IF AnonymizeError(name, a) # "" THEN None
    ELSE Some(p \o hexdigest(a, encode(name)) \o SplitextAtLastDot(name)[2])

\* The value anonymize_file_name returns.
anonymize_file_name(name, a, p) ==
    IF AnonymizeError(name, a) # "" THEN None
    ELSE LET hashed_name == hexdigest(a, encode(name))
             file_extension == splitext(name)[2]
         IN Some(p \o hashed_name \o file_extension)

-----------------------------------------------------------------------------
(* The file system.  A node is [kind, id]: kind is "dir", "file", "link" (a *)
(* symbolic link to a regular file elsewhere) or "fifo"; id is the path the *)
(* node had when the run started and stands for its content.                *)

DirName == <<"d">>

\* The directory argument, an absolute path string.
directory == <<sep>> \o DirName

Node(kind, path) == [kind |-> kind, id |-> path]

RECURSIVE Split(_)
\* str.split(sep): the components of a path string, empty ones included.
Split(s) ==
    LET k == IF \E j \in 1..Len(s) : s[j] = sep
             THEN CHOOSE j \in 1..Len(s) : s[j] = sep /\ \A i \in 1..(j - 1) : s[i] # sep
             ELSE 0
    IN IF k = 0 THEN <<s>> ELSE <<SubSeq(s, 1, k - 1)>> \o Split(SubSeq(s, k + 1, Len(s)))

IsDirAt(f, path) == path = <<>> \/ (path \in DOMAIN f /\ f[path].kind = "dir")

RECURSIVE WalkDirs(_, _, _)
\* The kernel's walk over the directory components of a path: the directory
\* reached from cur, or failure when a component is missing or no directory.
WalkDirs(f, cur, comps) ==
    IF comps = <<>> THEN [ok |-> TRUE, path |-> cur]
    ELSE LET c == Head(comps)
         IN IF c = <<>> \/ c = <<".">> THEN WalkDirs(f, cur, Tail(comps))
            ELSE IF c = <<".", ".">>
                 THEN WalkDirs(f, IF cur = <<>> THEN cur ELSE SubSeq(cur, 1, Len(cur) - 1),
                               Tail(comps))
            ELSE IF IsDirAt(f, Append(cur, c)) THEN WalkDirs(f, Append(cur, c), Tail(comps))
            ELSE [ok |-> FALSE, path |-> <<>>]

\* The place an absolute path string names: its last component below the
\* directory its other components lead to.
Resolve(f, s) ==
    LET comps == Split(s)
        parent == WalkDirs(f, <<>>, SubSeq(comps, 1, Len(comps) - 1))
    IN IF parent.ok
       THEN [ok |-> TRUE, path |-> Append(parent.path, comps[Len(comps)])]
       ELSE [ok |-> FALSE, path |-> <<>>]

isdir(f, s) ==
    LET r == Resolve(f, s) IN r.ok /\ r.path \in DOMAIN f /\ f[r.path].kind = "dir"

ExistsAt(f, s) ==
    LET r == Resolve(f, s) IN r.ok /\ r.path \in DOMAIN f

\* os.path.isfile follows symbolic links: a link to a regular file is a file.
isfile(f, s) ==
    LET r == Resolve(f, s)
    IN r.ok /\ r.path \in DOMAIN f /\ f[r.path].kind \in {"file", "link"}

\* The names os.listdir finds in the directory at path.
Children(f, path) ==
    {q[Len(q)] : q \in {r \in DOMAIN f : Len(r) = Len(path) + 1 /\ SubSeq(r, 1, Len(path)) = path}}

\* The orders in which os.listdir may return the names in S.
Orders(S) ==
    {o \in [1..Cardinality(S) -> S] : \A i, j \in 1..Cardinality(S) : o[i] = o[j] => i = j}

\* The exception os.rename(src, dst) raises whatever the permissions, "" when none.
RenameError(f, src, dst) ==
    IF \E k \in 1..Len(dst) : dst[k] = "NUL" THEN "ValueError"
    ELSE IF ~Resolve(f, dst).ok THEN "FileNotFoundError"
    ELSE IF isdir(f, dst) THEN "IsADirectoryError"
    ELSE ""

\* A copy to dst that leaves src in place.
RenameCopying(f, src, dst) ==
    LET from == Resolve(f, src).path
        to == Resolve(f, dst).path
    IN [q \in DOMAIN f \cup {to} |-> IF q = to THEN f[from] ELSE f[q]]

\* The file system after os.rename(src, dst) succeeded: the node moves, and
\* replaces what dst named.
rename(f, src, dst) ==
    LET from == Resolve(f, src).path
        to == Resolve(f, dst).path
    IN [q \in (DOMAIN f \ {from}) \cup {to} |-> IF q = to THEN f[from] ELSE f[q]]

-----------------------------------------------------------------------------
(* is_valid_directory and the records the run logs.                        *)

\* A check with os.path.exists in the place of os.path.isdir.
ValidIfExists(f, d) == ExistsAt(f, d)

is_valid_directory(f, d) == isdir(f, d)

Record(level, event, file, to, cause) ==
    [level |-> level, event |-> event, file |-> file, to |-> to, cause |-> cause]

InvalidDirectoryLog(f, d) ==
    IF is_valid_directory(f, d) THEN <<>>
    ELSE <<Record("ERROR", "invalid_directory", d, <<>>, "not a directory")>>

\* The record anonymize_file_name logs when it returns None.
AnonymizeLog(name, a) ==
    IF AnonymizeError(name, a) # ""
    THEN <<Record("ERROR", "anonymize", name, <<>>, AnonymizeError(name, a))>>
    ELSE <<>>

-----------------------------------------------------------------------------
(* The inputs of a run.                                                    *)

\* An algorithm name hashlib does not know.
Unsupported == "whirlpool"

RunAlgorithms == choices \cup {Unsupported}

RunPrefixes == {<<"x", "_">>, <<".", ".", "/">>, <<"s", "/">>, <<"NUL">>}

\* Names a child of the directory may have, besides the names the run computes.
BaseNames == {<<"a">>, <<"a", ".", "b">>, <<"s">>, <<Surrogate>>}

BaseKinds(n) ==
    IF n = <<"s">> THEN {"dir", "fifo"}
    ELSE IF n = <<"a", ".", "b">> THEN {"file", "link"}
    ELSE {"file"}

\* The computed names that can be the name of a child: that of the base name
\* "a", when it holds no separator.
TargetNames(a, p) ==
    {anonymize_file_name(n, a, p).name :
        n \in {m \in {<<"a">>} :
                 /\ anonymize_file_name(m, a, p).ok
                 /\ \A k \in 1..Len(p) : p[k] \notin {sep, "NUL"}}}

\* The children a directory may start with: (name, kind) pairs.
Candidates(a, p) ==
    {c \in BaseNames \X {"dir", "fifo", "file", "link"} : c[2] \in BaseKinds(c[1])}
        \cup (TargetNames(a, p) \X {"file", "fifo", "dir"})

\* The file system holding the directory with the children cs; every
\* subdirectory among them holds one file, "b".
FileSystemOf(cs) ==
    LET D == <<DirName>>
        below == {<<DirName, c[1], <<"b">>>> : c \in {x \in cs : x[2] = "dir"}}
        kids == {<<DirName, c[1]>> : c \in cs}
    IN [q \in {D} \cup kids \cup below |->
          IF q = D THEN Node("dir", q)
          ELSE IF q \in below THEN Node("file", q)
          ELSE Node((CHOOSE c \in cs : c[1] = q[2])[2], q)]

FileSystems(a, p) ==
    {FileSystemOf(cs) :
        cs \in {x \in SUBSET Candidates(a, p) :
                  /\ Cardinality(x) <= MaxEntries
                  /\ \A c, e \in x : c[1] = e[1] => c = e}}
    \cup {<<>>}                                             \* the path does not exist
    \cup {[q \in {<<DirName>>} |-> Node("file", q)]}        \* the path is a regular file

-----------------------------------------------------------------------------
(* Decisions of process_directory.                                         *)

\* "if dry_run:" chooses the preview; the else branch renames.
RenamesAlways(dry) == TRUE

Renames(dry) == ~dry

\* The loop index after an iteration whose rename raised: the except clauses
\* log and the loop goes on.
AbortsAfterError(i, n) == n + 1

AfterRenameError(i, n) == i + 1

\* The records logged when os.rename raised.
RenameErrorSilent(name, to, cause) == <<>>

RenameErrorLog(name, to, cause) ==
    <<Record("ERROR", IF cause = "ValueError" THEN "rename_unexpected" ELSE "rename", name, to, cause)>>

\* The file system after os.rename raised: the except clauses undo nothing.
RolledBack(f, f0) == f0

FsAfterRenameError(f, f0) == f

\* "if os.path.isfile(file_path):" admits the child to the renaming.
AdmitsAll(f, file_path) == ExistsAt(f, file_path)

Admits(f, file_path) == isfile(f, file_path)

-----------------------------------------------------------------------------
(* The run: main, process_directory and the loop over the listing.         *)

Init ==
    /\ entry \in {"main", "process_directory"}
    /\ pc = entry
    /\ algorithm \in (IF entry = "main" THEN RunAlgorithms \cap choices ELSE RunAlgorithms)
    \* a command-line argument cannot hold a NUL
    /\ prefix \in (IF entry = "main" THEN RunPrefixes \ {<<"NUL">>} ELSE RunPrefixes)
    /\ dry_run \in BOOLEAN
    /\ log_file \in (IF entry = "main" THEN {"none", "ok", "bad"} ELSE {"none"})
    /\ file_name = <<>>
    /\ result = None
    /\ fs \in FileSystems(algorithm, prefix)
    /\ fs0 = fs
    /\ readable \in BOOLEAN
    /\ listing = <<>>
    /\ idx = 1
    /\ outcome = <<>>
    /\ log = <<>>
    /\ ret = "none"

Args == <<entry, algorithm, prefix, dry_run, log_file, file_name, result, fs0, readable>>

\* main, lines 148-155: logging.FileHandler raises when the log file cannot be opened.
MainConfigureLogging ==
    /\ pc = "main"
    /\ IF log_file = "bad"
       THEN pc' = "done" /\ ret' = "raised"
       ELSE pc' = "main_validate" /\ ret' = ret
    /\ UNCHANGED <<Args, fs, listing, idx, outcome, log>>

\* main, lines 157-160.
MainValidate ==
    /\ pc = "main_validate"
    /\ log' = log \o InvalidDirectoryLog(fs, directory)
    /\ IF is_valid_directory(fs, directory)
       THEN pc' = "process_directory" /\ ret' = ret
       ELSE pc' = "done" /\ ret' = "1"
    /\ UNCHANGED <<Args, fs, listing, idx, outcome>>

\* process_directory, lines 115-116.
PdValidate ==
    /\ pc = "process_directory"
    /\ log' = log \o InvalidDirectoryLog(fs, directory)
    /\ pc' = IF is_valid_directory(fs, directory) THEN "listdir" ELSE "return"
    /\ UNCHANGED <<Args, fs, listing, idx, outcome, ret>>

\* process_directory, line 118: os.listdir; when it raises, lines 137-138.
PdListdir ==
    /\ pc = "listdir"
    /\ IF readable
       THEN /\ listing' \in Orders(Children(fs, <<DirName>>))
            /\ pc' = "loop"
            /\ log' = log
       ELSE /\ listing' = listing
            /\ pc' = "return"
            /\ log' = Append(log, Record("ERROR", "process_directory", directory, <<>>,
                                         "PermissionError"))
    /\ UNCHANGED <<Args, fs, idx, outcome, ret>>

InLoop == pc = "loop" /\ idx <= Len(listing)

Current == listing[idx]

CurrentPath == join(directory, Current)

CurrentAnon == anonymize_file_name(Current, algorithm, prefix)

CurrentTarget == join(directory, CurrentAnon.name)

\* The branch an iteration takes, lines 121, 124 and 127.
SkipBranch == InLoop /\ ~Admits(fs, CurrentPath)

HashFailedBranch == InLoop /\ Admits(fs, CurrentPath) /\ ~CurrentAnon.ok

PreviewBranch == InLoop /\ Admits(fs, CurrentPath) /\ CurrentAnon.ok /\ ~Renames(dry_run)

RenameBranch == InLoop /\ Admits(fs, CurrentPath) /\ CurrentAnon.ok /\ Renames(dry_run)

\* Lines 119-121, the child is no file: nothing is done for it.
VisitSkip ==
    /\ SkipBranch
    /\ outcome' = Append(outcome, "Skipped")
    /\ idx' = idx + 1
    /\ UNCHANGED <<Args, pc, fs, listing, log, ret>>

\* Lines 122-124, anonymize_file_name returned None.
VisitHashFailed ==
    /\ HashFailedBranch
    /\ log' = log \o AnonymizeLog(Current, algorithm)
    /\ outcome' = Append(outcome, "HashFailed")
    /\ idx' = idx + 1
    /\ UNCHANGED <<Args, pc, fs, listing, ret>>

\* Lines 127-128, the dry run.
VisitPreview ==
    /\ PreviewBranch
    /\ log' = Append(log, Record("INFO", "preview", Current, CurrentAnon.name, ""))
    /\ outcome' = Append(outcome, "Previewed")
    /\ idx' = idx + 1
    /\ UNCHANGED <<Args, pc, fs, listing, ret>>

\* Lines 130-132, os.rename returned.
VisitRenamed ==
    /\ RenameBranch
    /\ RenameError(fs, CurrentPath, CurrentTarget) = ""
    /\ fs' = rename(fs, CurrentPath, CurrentTarget)
    /\ log' = Append(log, Record("INFO", "renamed", Current, CurrentAnon.name, ""))
    /\ outcome' = Append(outcome, "Renamed")
    /\ idx' = idx + 1
    /\ UNCHANGED <<Args, pc, listing, ret>>

\* Lines 130-136, os.rename raised: for what the paths are, or because the
\* permissions forbid the rename.
VisitRenameFailed ==
    /\ RenameBranch
    /\ \E cause \in {RenameError(fs, CurrentPath, CurrentTarget), "PermissionError"} \ {""} :
          log' = log \o RenameErrorLog(Current, CurrentAnon.name, cause)
    /\ outcome' = Append(outcome, "RenameFailed")
    /\ idx' = AfterRenameError(idx, Len(listing))
    /\ fs' = FsAfterRenameError(fs, fs0)
    /\ UNCHANGED <<Args, pc, listing, ret>>

Returning == pc = "return" \/ (pc = "loop" /\ idx > Len(listing))

\* process_directory returns; main, line 161.
PdReturn ==
    /\ Returning
    /\ pc' = "done"
    /\ ret' = IF entry = "main" THEN "0" ELSE ret
    /\ UNCHANGED <<Args, fs, listing, idx, outcome, log>>

Next ==
    \/ MainConfigureLogging
    \/ MainValidate
    \/ PdValidate
    \/ PdListdir
    \/ VisitSkip
    \/ VisitHashFailed
    \/ VisitPreview
    \/ VisitRenamed
    \/ VisitRenameFailed
    \/ PdReturn

Spec == Init /\ [][Next]_vars

-----------------------------------------------------------------------------
(* Direct calls of anonymize_file_name, on every small name and prefix.    *)

NameChars == {"a", ".", EAcute, Surrogate}

\* The names a directory entry can have: not empty, not "." or "..", no separator.
FileNames == SeqsUpTo(NameChars, MaxNameLen) \ {<<>>, <<".">>, <<".", ".">>}

PrefixChars == {"x", ".", sep}

FnInit ==
    /\ entry = "anonymize_file_name"
    /\ pc = entry
    /\ file_name \in FileNames
    /\ algorithm \in choices \cup {Unsupported}
    /\ prefix \in SeqsUpTo(PrefixChars, MaxPrefixLen)
    /\ dry_run = FALSE
    /\ log_file = "none"
    /\ result = None
    /\ fs = <<>>
    /\ fs0 = <<>>
    /\ readable = TRUE
    /\ listing = <<>>
    /\ idx = 1
    /\ outcome = <<>>
    /\ log = <<>>
    /\ ret = "none"

\* anonymize_file_name, lines 88-101.
CallAnonymize ==
    /\ pc = "anonymize_file_name"
    /\ result' = anonymize_file_name(file_name, algorithm, prefix)
    /\ log' = log \o AnonymizeLog(file_name, algorithm)
    /\ pc' = "done"
    /\ UNCHANGED <<entry, algorithm, prefix, dry_run, log_file, file_name, fs, fs0,
                   readable, listing, idx, outcome, ret>>

FnNext == CallAnonymize

FnSpec == FnInit /\ [][FnNext]_vars

-----------------------------------------------------------------------------
(* Properties of the name derivation, checked under FnSpec.                *)

HasChar(s, c) == \E k \in 1..Len(s) : s[k] = c

LastIndexOf(s, c) ==
    IF HasChar(s, c) THEN CHOOSE k \in 1..Len(s) : s[k] = c /\ ~HasChar(SubSeq(s, k + 1, Len(s)), c)
    ELSE 0

\* The suffix of s from its final dot, empty when s holds no dot.
FinalDotSuffix(s) ==
    IF HasChar(s, ".") THEN SubSeq(s, LastIndexOf(s, "."), Len(s)) ELSE <<>>

\* The extension as os.path.splitext defines it: the suffix from the final dot
\* when that dot lies in the last component of s and some character other than
\* a dot precedes it there; empty otherwise.
ExtensionOf(s) ==
    LET d == LastIndexOf(s, ".")
        b == LastIndexOf(s, "/")
    IN IF d > b /\ \E k \in (b + 1)..(d - 1) : s[k] # "."
       THEN SubSeq(s, d, Len(s))
       ELSE <<>>

IsLowerHex(s) == \A k \in 1..Len(s) : \E j \in 1..16 : HexDigits[j] = s[k]

Returned == entry = "anonymize_file_name" /\ pc = "done"

Derivable == algorithm \in algorithms_available /\ encodable(file_name)

\* C5 as stated: for every name, supported algorithm and prefix the result is
\* the prefix, then the lowercase hex digest of the full name, then the suffix
\* of the name from its final dot (empty when the name holds no dot).
C5_AsStated ==
    (Returned /\ algorithm \in algorithms_available) =>
        /\ result.ok
        /\ result.name = prefix \o hexdigest(algorithm, encode(file_name))
                                \o FinalDotSuffix(file_name)

\* C5, amended: for every name that UTF-8 can encode, supported algorithm and
\* prefix, the result is the prefix, then the lowercase hex digest of the full
\* name (two digits for each byte of the algorithm's digest), then the
\* extension of the name as os.path.splitext defines it; the result starts
\* with the prefix.  For a name that UTF-8 cannot encode the call logs an
\* error naming it and returns None.
C5_NameDerivation ==
    /\ (Returned /\ algorithm \in algorithms_available /\ ~encodable(file_name)) =>
          /\ result = None
          /\ \E k \in 1..Len(log) : log[k].level = "ERROR" /\ log[k].file = file_name
    /\ (Returned /\ Derivable) =>
        /\ result.ok
        /\ LET n == Len(prefix)
               w == 2 * digest_size(algorithm)
               out == result.name
           IN /\ Len(out) = n + w + Len(ExtensionOf(file_name))
              /\ SubSeq(out, 1, n) = prefix
              /\ SubSeq(out, n + 1, n + w) = hexdigest(algorithm, encode(file_name))
              /\ IsLowerHex(SubSeq(out, n + 1, n + w))
              /\ SubSeq(out, n + w + 1, Len(out)) = ExtensionOf(file_name)

\* Witness of C5: a call returned a name for a file name with an extension
\* and a two-byte character, under a non-empty prefix.
C5_Witness ==
    /\ Returned
    /\ result.ok
    /\ file_name = <<EAcute, ".", "a">>
    /\ prefix = <<"x", sep>>
    /\ algorithm = "sha256"

\* C6 as stated, the extension taken as os.path.splitext defines it: when the
\* name holds a dot the result ends with the name's extension and has that
\* extension, and when the name holds no dot the result has no extension.
C6_AsStated ==
    (Returned /\ result.ok) =>
        /\ HasChar(file_name, ".") =>
              /\ endswith(result.name, ExtensionOf(file_name))
              /\ ExtensionOf(result.name) = ExtensionOf(file_name)
        /\ ~HasChar(file_name, ".") => ExtensionOf(result.name) = <<>>

\* C6, amended: with the extension taken as os.path.splitext defines it and a
\* prefix that has no extension itself (none of the dots of its last path
\* component follows a character other than a dot), the extension of the
\* result is the extension of the name: the result ends with it, and a name
\* without a dot gives a result without an extension.
C6_ExtensionPreserved ==
    (Returned /\ result.ok /\ ExtensionOf(prefix) = <<>>) =>
        /\ endswith(result.name, ExtensionOf(file_name))
        /\ ExtensionOf(result.name) = ExtensionOf(file_name)
        /\ ~HasChar(file_name, ".") => ExtensionOf(result.name) = <<>>

\* Witness of C6: a name with a dot whose extension the result carries.
C6_Witness ==
    /\ Returned
    /\ result.ok
    /\ prefix = <<".", sep>>
    /\ file_name = <<"a", ".", "a">>
    /\ ExtensionOf(result.name) = <<".", "a">>

-----------------------------------------------------------------------------
(* Properties of the runs, checked under Spec and FairSpec.                *)

Ran == entry \in {"main", "process_directory"}

Done == Ran /\ pc = "done"

DirPath == <<DirName>>

ChildPath(n) == <<DirName, n>>

Children0 == Children(fs0, DirPath)

\* The run read the listing of the directory.
Listed ==
    /\ Ran
    /\ pc \in {"loop", "done"}
    /\ ret # "raised"
    /\ readable
    /\ DirPath \in DOMAIN fs0
    /\ fs0[DirPath].kind = "dir"

\* The children the start state holds that os.path.isfile accepts: regular
\* files and symbolic links to them.
Files0 == {n \in Children0 : fs0[ChildPath(n)].kind \in {"file", "link"}}

Anon(n) == anonymize_file_name(n, algorithm, prefix)

\* The place the computed path of child n names in the start state.
Target(n) == Resolve(fs0, join(directory, Anon(n).name))

\* The children whose rename can be attempted: the name is computed and the
\* directory of the computed path exists.
Movable0 == {n \in Files0 : Anon(n).ok /\ Target(n).ok}

\* No computed path names an entry the start state holds, and no two children
\* have the same computed path.
NoCollision ==
    /\ \A n \in Movable0 : Target(n).path \notin DOMAIN fs0
    /\ \A n, m \in Movable0 : Target(n).path = Target(m).path => n = m

RecordsOf(n) == {k \in 1..Len(log) : log[k].file = n}

Failed(i) == outcome[i] \in {"HashFailed", "RenameFailed"}

\* C1: in a dry run the file system stays what it was when the run started, in
\* every state of the run, and no iteration takes the rename branch.
C1_DryRunNonMutation ==
    (Ran /\ dry_run) =>
        /\ fs = fs0
        /\ \A i \in 1..Len(outcome) : outcome[i] \notin {"Renamed", "RenameFailed"}
        /\ \A k \in 1..Len(log) : log[k].event \notin {"renamed", "rename", "rename_unexpected"}

\* Witness of C1: a dry run over two files ended, both previewed.
C1_Witness ==
    /\ Done
    /\ dry_run
    /\ outcome = <<"Previewed", "Previewed">>

\* C2: when the listing was read, every child is visited whatever happened to
\* the others; every file is admitted, has its rename attempted in a run that
\* is not dry when its name was computed, and every failure is reported for
\* its file.
C2_FailureIsolation ==
    (Done /\ Listed) =>
        /\ Len(outcome) = Len(listing)
        /\ \A i \in 1..Len(outcome) :
              /\ listing[i] \in Files0 => outcome[i] # "Skipped"
              /\ (listing[i] \in Files0 /\ ~dry_run /\ Anon(listing[i]).ok)
                    => outcome[i] \in {"Renamed", "RenameFailed"}
              /\ Failed(i) => \E k \in RecordsOf(listing[i]) : log[k].level = "ERROR"

\* Witness of C2: the rename of the first file failed and the second file was
\* renamed all the same.
C2_Witness ==
    /\ Done
    /\ outcome = <<"RenameFailed", "Renamed">>

\* The exit status of "sys.exit(main())", lines 164-165: the value main returns,
\* and 1 when main raises.
ExitStatus == IF ret = "raised" THEN "1" ELSE ret

C4_Skipping ==
    Ran =>
        \* a subdirectory and what lies below it stay as they were
        /\ \A q \in DOMAIN fs0 :
              (fs0[q].kind = "dir" \/ Len(q) > 2) => (q \in DOMAIN fs /\ fs[q] = fs0[q])
        \* a child that is no file and whose name no computed path names is
        \* skipped and stays
        /\ \A i \in 1..Len(outcome) :
              (listing[i] \notin Files0 /\ \A m \in Movable0 : Target(m).path # ChildPath(listing[i]))
                  => (outcome[i] = "Skipped" /\ fs[ChildPath(listing[i])] = fs0[ChildPath(listing[i])])
        \* a skipped child leaves no record
        /\ \A i \in 1..Len(outcome) : outcome[i] = "Skipped" => RecordsOf(listing[i]) = {}

\* What C4 asks of every step: a step that changes the file system is an
\* iteration of the loop on a child that os.path.isfile accepts.
C4_RenameStep ==
    fs' # fs => (InLoop /\ isfile(fs, CurrentPath) /\ outcome' = Append(outcome, "Renamed"))

C7_InPlace ==
    Ran => \A q \in DOMAIN fs : Len(fs[q].id) = 2 => (Len(q) = 2 /\ q[1] = DirName)

\* The record an outcome leaves in the log for its file: its event, "" for none.
EventOf(o, cause) ==
    CASE o = "Renamed" -> "renamed"
      [] o = "Previewed" -> "preview"
      [] o = "HashFailed" -> "anonymize"
      [] o = "RenameFailed" -> IF cause = "ValueError" THEN "rename_unexpected" ELSE "rename"
      [] OTHER -> ""

\* What C8 asks of a run that ended after it read the listing.
C8_Terminal ==
    (Done /\ Listed) =>
        /\ Len(outcome) = Len(listing)
        /\ \A i \in 1..Len(listing) :
              /\ outcome[i] \in {"Renamed", "Previewed", "Skipped", "HashFailed", "RenameFailed"}
              /\ IF outcome[i] = "Skipped" THEN RecordsOf(listing[i]) = {}
                 ELSE \E k \in 1..Len(log) :
                        /\ RecordsOf(listing[i]) = {k}
                        /\ log[k].event = EventOf(outcome[i], log[k].cause)
                        /\ log[k].level = (IF Failed(i) THEN "ERROR" ELSE "INFO")
                        /\ Failed(i) => log[k].cause # ""

\* The run has a next step: it stands before one of the statements of main or
\* process_directory, or in the loop, where one of the branches is open (a
\* rename can always raise) or the list is exhausted.
HasNextStep ==
    \/ pc \in {"main", "main_validate", "process_directory", "listdir"}
    \/ Returning
    \/ SkipBranch
    \/ HashFailedBranch
    \/ PreviewBranch
    \/ RenameBranch

\* A bound on the steps the run can still take.
StepsLeft ==
    LET most == Cardinality(Children0) + 2
    IN CASE pc = "main" -> most + 4
         [] pc = "main_validate" -> most + 3
         [] pc = "process_directory" -> most + 2
         [] pc = "listdir" -> most + 1
         [] pc = "loop" -> (Len(listing) + 1 - idx) + 1
         [] pc = "return" -> 1
         [] OTHER -> 0

\* C8: every run ends (each step lowers the bound StepsLeft and a run that has
\* not ended has a next step), and when it ends after reading the listing each
\* child has one terminal state, Renamed, Previewed, Skipped or failed, with
\* exactly one log record for a child that was not skipped: an error record
\* naming the file and the cause when its name computation or its rename
\* failed.
C8_TerminalStates ==
    /\ [](Ran => (C8_Terminal /\ (pc = "done" \/ HasNextStep)))
    /\ [][Ran => StepsLeft' < StepsLeft]_vars

\* Witness of C8: a run ended with a failed name computation and a failed rename.
C8_Witness ==
    /\ Done
    /\ ~dry_run
    /\ outcome = <<"HashFailed", "RenameFailed">>

\* What C9 asks of the children visited so far: a renamed one is at its
\* computed path and no longer at its old one, any other is where it was.
Settled ==
    \A j \in 1..Len(outcome) :
        LET n == listing[j]
        IN IF outcome[j] = "Renamed"
           THEN /\ Target(n).path \in DOMAIN fs
                /\ fs[Target(n).path] = fs0[ChildPath(n)]
                /\ ChildPath(n) \notin DOMAIN fs
           ELSE /\ ChildPath(n) \in DOMAIN fs
                /\ fs[ChildPath(n)] = fs0[ChildPath(n)]

\* C9 as stated: in every state of every run, for every directory content.
C9_AsStated == Ran => Settled

\* C9, amended: when no computed path names an entry the directory (or the
\* place the path leads to) holds at the start and no two children have the
\* same computed path, a visited child is never changed again: a renamed one
\* stays at its computed path, any other stays where it was, whatever fails
\* later.
C9_NoRollback == Ran => (Settled \/ ~NoCollision)

\* Witness of C9: without collisions, the first file was renamed and the
\* rename of the second failed.
C9_Witness ==
    /\ Done
    /\ NoCollision
    /\ outcome = <<"Renamed", "RenameFailed">>

CleanRun ==
    /\ Done
    /\ ~dry_run
    /\ \A i \in 1..Len(outcome) : outcome[i] # "RenameFailed"

\* C10 as stated: after a run that is not dry and went through the listing, in
\* which no rename failed and no computed name is the name of a child or the
\* computed name of another child, the directory holds each regular file of
\* the start under its computed name, and every other child as it was.
C10_AsStated ==
    (CleanRun /\ Listed /\ NoCollision) =>
        \A n \in Children0 :
            IF fs0[ChildPath(n)].kind = "file"
            THEN /\ Anon(n).ok
                 /\ ChildPath(Anon(n).name) \in DOMAIN fs
                 /\ fs[ChildPath(Anon(n).name)] = fs0[ChildPath(n)]
                 /\ ChildPath(n) \notin DOMAIN fs
            ELSE /\ ChildPath(n) \in DOMAIN fs
                 /\ fs[ChildPath(n)] = fs0[ChildPath(n)]

\* The file system a clean run leaves, whatever the order of the listing.
Expected ==
    LET moved == {ChildPath(n) : n \in Movable0}
        targets == {Target(n).path : n \in Movable0}
    IN [q \in (DOMAIN fs0 \ moved) \cup targets |->
          IF q \in targets
          THEN fs0[ChildPath(CHOOSE n \in Movable0 : Target(n).path = q)]
          ELSE fs0[q]]

\* C10, amended: after a run that is not dry and read the listing, in which
\* no name computation and no rename failed and no computed path names an
\* entry of the start or is the computed path of another child, every child
\* that os.path.isfile accepts (regular files, and links to them) is at
\* os.path.join(directory, computed name), in the directory itself when the
\* prefix holds no separator, with its content, renamed exactly once; every
\* other entry is as it was; and the file system is the same for every order
\* of the listing.
C10_CleanRun ==
    (CleanRun /\ Listed /\ NoCollision /\ \A i \in 1..Len(outcome) : outcome[i] # "HashFailed") =>
        /\ fs = Expected
        /\ Movable0 = Files0
        /\ \A n \in Files0 :
              /\ Cardinality({k \in 1..Len(log) : log[k].event = "renamed" /\ log[k].file = n}) = 1
              /\ fs[Target(n).path] = fs0[ChildPath(n)]
              /\ ~HasChar(prefix, sep) => Target(n).path = ChildPath(Anon(n).name)
        /\ \A n \in Children0 \ Files0 : fs[ChildPath(n)] = fs0[ChildPath(n)]

\* Witness of C10: a clean run renamed two files.
C10_Witness ==
    /\ CleanRun
    /\ Listed
    /\ NoCollision
    /\ outcome = <<"Renamed", "Renamed">>
    /\ ~HasChar(prefix, sep)

====
